---- MODULE Spec2Model ----
(***************************************************************************)
(* PnL tracker: the date-keyed entry store, its persistence in             *)
(* localStorage, the month-matrix builder and the monthly aggregates of    *)
(* the PnLTrackerApp component.                                            *)
(*                                                                         *)
(* Four specifications share the variables:                                *)
(*   Spec        a user session on the month displayed at startup: startup,*)
(*               the modal editor, save, delete and reset, every mutation  *)
(*               followed by the persist effect.                           *)
(*   SpecMatrix  one call of generateMonthMatrix, one loop iteration per   *)
(*               step, with weeklyTotals read off the matrix.              *)
(*   SpecStats   monthEntries / stats over stores drawn from a bounded     *)
(*               set, under month navigation.                              *)
(*   SpecCells   stores built by saving numeric pnl through the cells of   *)
(*               the displayed months, followed by one render: the call of *)
(*               generateMonthMatrix with weeklyTotals and stats.          *)
(*                                                                         *)
(* Numbers are integers (pnl is entered in whole units in the model),      *)
(* strings that the code slices, pads, trims or parses are sequences of    *)
(* one-character strings.                                                  *)
(***************************************************************************)
EXTENDS Integers, Sequences, FiniteSets, TLC

VARIABLES
    pc,          \* session: "boot" | "unloaded" | "ready" | "failed"
    tz,          \* host time zone, whole hours east of UTC
    urlReset,    \* window.location.search carries reset=1
    storage,     \* localStorage[STORAGE_KEY]: absent, unparseable or a JSON text
    entries,     \* useState entries: key -> [pnl, notes, updated]
    viewYear, viewMonth,
    modalOpen, modalDate, modalPNL, modalNotes,
    now,         \* the clock read by new Date() in saveModal
    uncaught,    \* the last operation let an exception escape
    ops,         \* number of mutations performed in the session
    gpc,         \* generateMonthMatrix: "idle" | "lead" | "days" | "pad" | "return"
    week, matrix, i, d

vars == <<pc, tz, urlReset, storage, entries, viewYear, viewMonth,
          modalOpen, modalDate, modalPNL, modalNotes, now, uncaught, ops,
          gpc, week, matrix, i, d>>

sessionVars == <<pc, urlReset, storage, modalOpen, modalDate, modalPNL,
                 modalNotes, now, uncaught, ops>>
matrixVars == <<gpc, week, matrix, i, d>>

(***************************************************************************)
(* Bounds of the model.                                                    *)
(***************************************************************************)
MaxWeeks == 8        \* generateMonthMatrix is followed up to this many weeks
MaxYearsBack == 0    \* SpecMatrix builds the months of 2024 - MaxYearsBack .. 2024
MaxOps == 2          \* mutations (save, delete, reset) per session
MaxClock == 1        \* the clock takes the values 0..MaxClock

\* A JavaScript value that is null or a value v is the sequence <<>> or <<v>>.
Null == <<>>
Some(v) == <<v>>
IsSome(x) == x # <<>>
ValueOf(x) == x[1]

TzHours == {-5, 2}

(***************************************************************************)
(* Strings as sequences of characters.                                     *)
(***************************************************************************)
Digits == <<"0", "1", "2", "3", "4", "5", "6", "7", "8", "9">>

\* UTF-16 code units of the characters of keys and numbers
CharCodes ==
    [c \in {"-", "0", "1", "2", "3", "4", "5", "6", "7", "8", "9"} |->
        CASE c = "-" -> 45 [] c = "0" -> 48 [] c = "1" -> 49 [] c = "2" -> 50
          [] c = "3" -> 51 [] c = "4" -> 52 [] c = "5" -> 53 [] c = "6" -> 54
          [] c = "7" -> 55 [] c = "8" -> 56 [] c = "9" -> 57]

CharCode(c) == CharCodes[c]

DigitValue(c) == CharCode(c) - CharCode("0")

RECURSIVE NatToStr(_)
NatToStr(n) == IF n < 10 THEN <<Digits[n + 1]>>
               ELSE NatToStr(n \div 10) \o <<Digits[(n % 10) + 1]>>

\* String(n) / template literal `${n}` / JSON.stringify(n) of an integer
ToStr(n) == IF n < 0 THEN <<"-">> \o NatToStr(-n) ELSE NatToStr(n)

RECURSIVE padStart(_, _, _)
padStart(s, len, fill) == IF Len(s) >= len THEN s ELSE padStart(<<fill>> \o s, len, fill)

RECURSIVE ParseNat(_)
ParseNat(s) == IF s = <<>> THEN 0
               ELSE 10 * ParseNat(SubSeq(s, 1, Len(s) - 1)) + DigitValue(s[Len(s)])

\* the text of a number: optional sign, digits
ParseNumber(s) == IF s[1] = "-" THEN 0 - ParseNat(Tail(s)) ELSE ParseNat(s)

\* The value of modalPNL is a string (the text of the number input) or a
\* number (existing.pnl): [type, str, num], the field not in use at its default.
StrVal(s) == [type |-> "string", str |-> s, num |-> 0]
NumVal(n) == [type |-> "number", str |-> <<>>, num |-> n]

\* Number(x)
Number(x) == IF x.type = "number" THEN x.num ELSE ParseNumber(x.str)

IsSpace(c) == c = " "

RECURSIVE trimStart(_)
trimStart(s) == IF s # <<>> /\ IsSpace(s[1]) THEN trimStart(Tail(s)) ELSE s

RECURSIVE trimEnd(_)
trimEnd(s) == IF s # <<>> /\ IsSpace(s[Len(s)])
              THEN trimEnd(SubSeq(s, 1, Len(s) - 1)) ELSE s

trim(s) == trimEnd(trimStart(s))

startsWith(s, p) == Len(p) <= Len(s) /\ SubSeq(s, 1, Len(p)) = p

\* s.slice(a, b) for 0 <= a <= b
slice(s, a, b) == SubSeq(s, a + 1, IF b < Len(s) THEN b ELSE Len(s))

(***************************************************************************)
(* Dates: new Date(year, month, day) in local time, as the local calendar  *)
(* date [y, m, d] with m zero-based.                                       *)
(***************************************************************************)
IsLeap(y) == (y % 4 = 0 /\ y % 100 # 0) \/ y % 400 = 0

DaysInMonth(y, m) ==
    IF m = 1 THEN (IF IsLeap(y) THEN 29 ELSE 28)
    ELSE IF m \in {3, 5, 8, 10} THEN 30 ELSE 31

PrevDay(dt) ==
    IF dt.d > 1 THEN [dt EXCEPT !.d = dt.d - 1]
    ELSE IF dt.m > 0 THEN [y |-> dt.y, m |-> dt.m - 1, d |-> DaysInMonth(dt.y, dt.m - 1)]
    ELSE [y |-> dt.y - 1, m |-> 11, d |-> 31]

\* new Date(year, month, day): years 0..99 mean 1900..1999, month 12 is
\* January of the next year, day 0 is the last day of the previous month
NewDate(year, month, day) ==
    LET yy == IF year \in 0..99 THEN 1900 + year ELSE year
        y1 == IF month = 12 THEN yy + 1 ELSE yy
        m1 == IF month = 12 THEN 0 ELSE month
    IN IF day = 0 THEN PrevDay([y |-> y1, m |-> m1, d |-> 1])
       ELSE [y |-> y1, m |-> m1, d |-> day]

RECURSIVE DaysBeforeMonth(_, _)
DaysBeforeMonth(y, m) == IF m = 0 THEN 0
                         ELSE DaysBeforeMonth(y, m - 1) + DaysInMonth(y, m - 1)

\* days from 0001-01-01 (a Monday) to the date
DayNumber(dt) ==
    LET p == dt.y - 1
    IN 365 * p + (p \div 4) - (p \div 100) + (p \div 400)
       + DaysBeforeMonth(dt.y, dt.m) + (dt.d - 1)

\* Date.prototype.getDay: 0 = Sunday
getDay(dt) == (DayNumber(dt) + 1) % 7

getDate(dt) == dt.d

\* Date.prototype.toISOString: the UTC instant of local midnight. East of
\* UTC local midnight falls on the previous UTC day.
toISOString(dt, zone) ==
    LET u == IF zone > 0 THEN PrevDay(dt) ELSE dt
        hh == IF zone > 0 THEN 24 - zone ELSE 0 - zone
    IN padStart(ToStr(u.y), 4, "0") \o <<"-">>
       \o padStart(ToStr(u.m + 1), 2, "0") \o <<"-">>
       \o padStart(ToStr(u.d), 2, "0") \o <<"T">>
       \o padStart(ToStr(hh), 2, "0") \o <<":", "0", "0", ":", "0", "0", ".", "0", "0", "0", "Z">>

\* dateObj.toISOString().slice(0, 10)
KeyOf(dt, zone) == slice(toISOString(dt, zone), 0, 10)

\* the key YYYY-MM-DD of a calendar date (m zero-based)
IsoDate(y, m, dd) ==
    padStart(ToStr(y), 4, "0") \o <<"-">> \o padStart(ToStr(m + 1), 2, "0")
    \o <<"-">> \o padStart(ToStr(dd), 2, "0")

(***************************************************************************)
(* generateMonthMatrix(year, month), called with (viewYear, viewMonth).    *)
(***************************************************************************)
first == NewDate(viewYear, viewMonth, 1)
last == NewDate(viewYear, viewMonth + 1, 0)

\* week.push(x); if (week.length === 7) { matrix.push(week); week = []; }
PushSlot(x) ==
    LET w == Append(week, x)
    IN IF Len(w) = 7
       THEN /\ matrix' = Append(matrix, w)
            /\ week' = <<>>
       ELSE /\ week' = w
            /\ matrix' = matrix

\* the test of the while loop at its head: the function returns when it fails
PadTest(w) == Len(w) < 7

\* for (let i = 0; i < first.getDay(); i++) week.push(null);
LeadStep ==
    /\ gpc = "lead"
    /\ week' = Append(week, Null)
    /\ i' = i + 1
    /\ gpc' = IF i + 1 < getDay(first) THEN "lead" ELSE "days"
    /\ UNCHANGED <<matrix, d>>

\* for (let d = 1; d <= last.getDate(); d++) { push the day }
DayStep ==
    /\ gpc = "days"
    /\ PushSlot(Some(NewDate(viewYear, viewMonth, d)))
    /\ d' = d + 1
    /\ gpc' = IF d + 1 <= getDate(last) THEN "days"
              ELSE IF PadTest(week') THEN "pad" ELSE "return"
    /\ UNCHANGED i

\* while (week.length < 7) { push null }
PadStep ==
    /\ gpc = "pad"
    /\ Len(matrix) < MaxWeeks
    /\ PushSlot(Null)
    /\ gpc' = IF PadTest(week') THEN "pad" ELSE "return"
    /\ UNCHANGED <<i, d>>

(***************************************************************************)
(* The entry store: a function from date keys to entries.                  *)
(***************************************************************************)
EmptyStore == [k \in {} |-> 0]

Has(store, key) == key \in DOMAIN store

\* next[key] = value
Put(store, key, value) ==
    [k \in DOMAIN store \cup {key} |-> IF k = key THEN value ELSE store[k]]

\* delete next[key]
Delete(store, key) == [k \in DOMAIN store \ {key} |-> store[k]]

Entry(p, n, u) == [pnl |-> p, notes |-> n, updated |-> u]

\* e && typeof e.pnl === "number", for e = store[key]
HasNumericPnl(store, key) == Has(store, key) /\ IsSome(store[key].pnl)

(***************************************************************************)
(* weeklyTotals: monthMatrix.map over the weeks, a loop over the slots.    *)
(***************************************************************************)
RECURSIVE WeekLoop(_, _, _, _, _)
WeekLoop(wk, n, store, zone, acc) ==
    IF n > Len(wk) THEN acc
    ELSE IF ~IsSome(wk[n]) THEN WeekLoop(wk, n + 1, store, zone, acc)
    ELSE LET key == KeyOf(ValueOf(wk[n]), zone)
         IN IF HasNumericPnl(store, key)
            THEN WeekLoop(wk, n + 1, store, zone,
                          [sum |-> acc.sum + ValueOf(store[key].pnl), any |-> TRUE])
            ELSE WeekLoop(wk, n + 1, store, zone, acc)

\* mutant of WeekTotal: return sum ? sum : null
WeekTotal_ZeroIsNull(wk, store, zone) ==
    LET r == WeekLoop(wk, 1, store, zone, [sum |-> 0, any |-> FALSE])
    IN IF r.sum # 0 THEN Some(r.sum) ELSE Null

\* return any ? sum : null
WeekTotal(wk, store, zone) ==
    LET r == WeekLoop(wk, 1, store, zone, [sum |-> 0, any |-> FALSE])
    IN IF r.any THEN Some(r.sum) ELSE Null

WeeklyTotals(mx, store, zone) ==
    [w \in 1..Len(mx) |-> WeekTotal(mx[w], store, zone)]

weeklyTotals == WeeklyTotals(matrix, entries, tz)

(***************************************************************************)
(* SpecMatrix: generateMonthMatrix(viewYear, viewMonth) step by step, over *)
(* a store whose entries were saved through cells of that month.           *)
(***************************************************************************)
Years == (2024 - MaxYearsBack)..2024

SampleNotes == <<"o", "k">>

MatrixEntryValues ==
    {Entry(Null, SampleNotes, 0), Entry(Some(40), <<>>, 0), Entry(Some(-40), <<>>, 0)}

MatrixKeys(y, m, zone) == {KeyOf(NewDate(y, m, dd), zone) : dd \in {1, 2}}

StoresOver(keys, values) ==
    UNION {[ks -> values] : ks \in SUBSET keys}

InitMatrix ==
    /\ tz \in TzHours
    /\ viewYear \in Years
    /\ viewMonth \in 0..11
    /\ entries \in StoresOver(MatrixKeys(viewYear, viewMonth, tz), MatrixEntryValues)
    /\ week = <<>>
    /\ matrix = <<>>
    /\ i = 0
    /\ d = 1
    /\ gpc = IF 0 < getDay(first) THEN "lead" ELSE "days"
    /\ pc = "render"
    /\ urlReset = FALSE
    /\ storage = [kind |-> "none", members |-> {}]
    /\ modalOpen = FALSE
    /\ modalDate = Null
    /\ modalPNL = StrVal(<<>>)
    /\ modalNotes = <<>>
    /\ now = 0
    /\ uncaught = FALSE
    /\ ops = 0

NextMatrix ==
    \/ LeadStep /\ UNCHANGED <<sessionVars, tz, entries, viewYear, viewMonth>>
    \/ DayStep /\ UNCHANGED <<sessionVars, tz, entries, viewYear, viewMonth>>
    \/ PadStep /\ UNCHANGED <<sessionVars, tz, entries, viewYear, viewMonth>>

SpecMatrix == InitMatrix /\ [][NextMatrix]_vars

(***************************************************************************)
(* Persistence: one localStorage item holding the JSON text of the store.  *)
(* A JSON text is kept as the set of its members, numbers as their digits. *)
(***************************************************************************)
NoItem == [kind |-> "none", members |-> {}]
CorruptItem == [kind |-> "corrupt", members |-> {}]

NullText == <<"n", "u", "l", "l">>

\* mutant of JSONstringify: a null pnl is written as 0
JSONstringify_NullAsZero(obj) ==
    [kind |-> "json",
     members |-> {[key |-> k,
                   pnl |-> IF IsSome(obj[k].pnl) THEN ToStr(ValueOf(obj[k].pnl))
                           ELSE ToStr(0),
                   notes |-> obj[k].notes,
                   updated |-> obj[k].updated] : k \in DOMAIN obj}]

JSONstringify(obj) ==
    [kind |-> "json",
     members |-> {[key |-> k,
                   pnl |-> IF IsSome(obj[k].pnl) THEN ToStr(ValueOf(obj[k].pnl))
                           ELSE NullText,
                   notes |-> obj[k].notes,
                   updated |-> obj[k].updated] : k \in DOMAIN obj}]

JSONparse(raw) ==
    [k \in {m.key : m \in raw.members} |->
        LET m == CHOOSE x \in raw.members : x.key = k
        IN Entry(IF m.pnl = NullText THEN Null ELSE Some(ParseNumber(m.pnl)),
                 m.notes, m.updated)]

\* loadEntries: getFails says that localStorage.getItem throws
loadEntries(item, getFails) ==
    IF getFails THEN EmptyStore
    ELSE IF item.kind = "none" THEN EmptyStore
    ELSE IF item.kind = "corrupt" THEN EmptyStore
    ELSE JSONparse(item)

\* saveEntries(obj) on the item, when setItem does not throw
saveEntries(obj) == JSONstringify(obj)

\* useEffect(() => { saveEntries(entries); }, [entries]) after a commit that
\* changed entries: item is the stored item the effect finds. saveEntries has
\* no try/catch, so an exception of setItem leaves the effect uncaught.
PersistEffect(item, obj, setFails) ==
    IF setFails
    THEN /\ storage' = item
         /\ uncaught' = TRUE
         /\ pc' = "failed"
    ELSE /\ storage' = saveEntries(obj)
         /\ uncaught' = FALSE
         /\ pc' = "ready"

\* The body of the SAFE MODE effect on the stored item. removeItem is inside
\* the try, so its exception is swallowed.
SafeModeItem(item, removeFails) ==
    IF urlReset /\ ~removeFails THEN NoItem ELSE item

\* setEntries({}) in the SAFE MODE effect: the effect is written at module
\* scope, where setEntries (a local of PnLTrackerApp) is not bound; the call
\* throws a ReferenceError that catch (_) {} swallows, and the state is kept.
SafeModeEntries(obj) == obj

(***************************************************************************)
(* Spec: a session of the mounted component.                               *)
(***************************************************************************)
Today == [y |-> 2024, m |-> 0]

\* the months prevMonth and nextMonth move through, and the days of the
\* displayed month whose cells are clicked
ViewMonths == {[y |-> 2023, m |-> 11], [y |-> 2024, m |-> 0], [y |-> 2024, m |-> 1]}
ClickDays == {1, 2}

InView(y, m) == [y |-> y, m |-> m] \in ViewMonths

\* the texts typed into the number input and the textarea
PnlInputs == {<<>>, <<"0">>, <<"-", "4", "0">>}
NotesInputs == {<<>>, <<" ">>, SampleNotes}

\* a store persisted by an earlier session
PersistedStore ==
    Put(Put(Put(EmptyStore,
        IsoDate(2024, 0, 2), Entry(Some(0), <<>>, 0)),
        IsoDate(2024, 0, 15), Entry(Some(100), <<" ">>, 0)),
        IsoDate(2023, 11, 31), Entry(Null, SampleNotes, 0))

Init ==
    /\ pc = "boot"
    /\ tz \in TzHours
    /\ urlReset \in BOOLEAN
    /\ storage \in {NoItem, CorruptItem, JSONstringify(PersistedStore)}
    /\ entries = EmptyStore
    /\ viewYear = Today.y
    /\ viewMonth = Today.m
    /\ modalOpen = FALSE
    /\ modalDate = Null
    /\ modalPNL = StrVal(<<>>)
    /\ modalNotes = <<>>
    /\ now = 0
    /\ uncaught = FALSE
    /\ ops = 0
    /\ gpc = "idle"
    /\ week = <<>>
    /\ matrix = <<>>
    /\ i = 0
    /\ d = 1

\* The module calls useEffect at its top level, outside any component. A
\* runtime that rejects the call makes the evaluation of the module throw,
\* and the component is never mounted.
LoadRejected ==
    /\ pc = "boot"
    /\ pc' = "unloaded"
    /\ uncaught' = TRUE
    /\ UNCHANGED <<tz, urlReset, storage, entries, viewYear, viewMonth, modalOpen,
                   modalDate, modalPNL, modalNotes, now, ops, matrixVars>>

\* First render and commit, the SAFE MODE effect run by the runtime before
\* the component is rendered: useState(() => loadEntries()) reads what the
\* effect left, then the persist effect writes the state back.
MountAfterSafeMode(removeFails, getFails, setFails) ==
    /\ pc = "boot"
    /\ LET item == SafeModeItem(storage, removeFails)
           loaded == loadEntries(item, getFails)
       IN /\ entries' = loaded
          /\ PersistEffect(item, loaded, setFails)
    /\ viewYear' = Today.y
    /\ viewMonth' = Today.m
    /\ UNCHANGED <<tz, urlReset, modalOpen, modalDate, modalPNL, modalNotes, now,
                   ops, matrixVars>>

\* First render and commit, the SAFE MODE effect run with the effects of the
\* mount, in source order: the state is loaded during the render, the SAFE
\* MODE effect removes the item and fails to reset the state, the persist
\* effect writes the loaded state back.
MountBeforeSafeMode(removeFails, getFails, setFails) ==
    /\ pc = "boot"
    /\ LET loaded == loadEntries(storage, getFails)
           item == SafeModeItem(storage, removeFails)
           kept == SafeModeEntries(loaded)
       IN /\ entries' = kept
          /\ PersistEffect(item, kept, setFails)
    /\ viewYear' = Today.y
    /\ viewMonth' = Today.m
    /\ UNCHANGED <<tz, urlReset, modalOpen, modalDate, modalPNL, modalNotes, now,
                   ops, matrixVars>>

Idle == pc = "ready" /\ ~modalOpen /\ ops < MaxOps

\* openForDate(dateObj), dateObj the date of a cell of the displayed month
openForDate(day) ==
    /\ Idle
    /\ day <= DaysInMonth(viewYear, viewMonth)
    /\ LET dateObj == NewDate(viewYear, viewMonth, day)
           key == KeyOf(dateObj, tz)
       IN /\ modalDate' = Some(key)
          /\ modalPNL' = IF Has(entries, key) /\ IsSome(entries[key].pnl)
                         THEN NumVal(ValueOf(entries[key].pnl))
                         ELSE StrVal(<<>>)
          /\ modalNotes' = IF Has(entries, key) THEN entries[key].notes ELSE <<>>
    /\ modalOpen' = TRUE
    /\ uncaught' = FALSE
    /\ UNCHANGED <<pc, tz, urlReset, storage, entries, viewYear, viewMonth, now,
                   ops, matrixVars>>

\* onChange of the number input: setModalPNL(e.target.value)
setModalPNL(text) ==
    /\ pc = "ready" /\ modalOpen
    /\ modalPNL' = StrVal(text)
    /\ uncaught' = FALSE
    /\ UNCHANGED <<pc, tz, urlReset, storage, entries, viewYear, viewMonth,
                   modalOpen, modalDate, modalNotes, now, ops, matrixVars>>

\* onChange of the textarea: setModalNotes(e.target.value)
setModalNotes(text) ==
    /\ pc = "ready" /\ modalOpen
    /\ modalNotes' = text
    /\ uncaught' = FALSE
    /\ UNCHANGED <<pc, tz, urlReset, storage, entries, viewYear, viewMonth,
                   modalOpen, modalDate, modalPNL, now, ops, matrixVars>>

\* Close, Cancel and the backdrop: setModalOpen(false)
closeModal ==
    /\ pc = "ready" /\ modalOpen
    /\ modalOpen' = FALSE
    /\ uncaught' = FALSE
    /\ UNCHANGED <<pc, tz, urlReset, storage, entries, viewYear, viewMonth,
                   modalDate, modalPNL, modalNotes, now, ops, matrixVars>>

\* the value saveModal builds: pnl, notes, updated
ModalValue(clock) ==
    Entry(IF modalPNL = StrVal(<<>>) THEN Null ELSE Some(Number(modalPNL)),
          modalNotes, clock)

\* mutant of IsEmptyValue: the notes are not trimmed
IsEmptyValue_NoTrim(value) == ~IsSome(value.pnl) /\ value.notes = <<>>

\* value.pnl == null && (!value.notes || value.notes.trim() === "")
IsEmptyValue(value) ==
    ~IsSome(value.pnl) /\ (value.notes = <<>> \/ trim(value.notes) = <<>>)

\* mutant of SaveResult: the pnl is added to the pnl already stored
SaveResult_Accumulates(store, key, value) ==
    IF ~IsSome(value.pnl) /\ (value.notes = <<>> \/ trim(value.notes) = <<>>)
    THEN Delete(store, key)
    ELSE IF HasNumericPnl(store, key) /\ IsSome(value.pnl)
    THEN Put(store, key, [value EXCEPT
                 !.pnl = Some(ValueOf(store[key].pnl) + ValueOf(value.pnl))])
    ELSE Put(store, key, value)

\* the store saveModal passes to setEntries
SaveResult(store, key, value) ==
    IF IsEmptyValue(value) THEN Delete(store, key) ELSE Put(store, key, value)

\* saveModal, the clock read as clock, followed by the persist effect
saveModal(clock, setFails) ==
    /\ pc = "ready" /\ modalOpen
    /\ ops < MaxOps
    /\ clock >= now
    /\ now' = clock
    /\ entries' = SaveResult(entries, ValueOf(modalDate), ModalValue(clock))
    /\ modalOpen' = FALSE
    /\ PersistEffect(storage, entries', setFails)
    /\ ops' = ops + 1
    /\ UNCHANGED <<tz, urlReset, viewYear, viewMonth, modalDate, modalPNL,
                   modalNotes, matrixVars>>

\* removeEntry(key)
RemoveResult(store, key) == Delete(store, key)

\* Delete in the modal, confirmed: removeEntry(modalDate), setModalOpen(false),
\* followed by the persist effect
removeEntry(setFails) ==
    /\ pc = "ready" /\ modalOpen
    /\ ops < MaxOps
    /\ entries' = RemoveResult(entries, ValueOf(modalDate))
    /\ modalOpen' = FALSE
    /\ PersistEffect(storage, entries', setFails)
    /\ ops' = ops + 1
    /\ UNCHANGED <<tz, urlReset, viewYear, viewMonth, modalDate, modalPNL,
                   modalNotes, now, matrixVars>>

\* Reset Data, confirmed: localStorage.removeItem(STORAGE_KEY), setEntries({}),
\* followed by the persist effect. An exception of removeItem leaves the
\* handler before setEntries.
resetData(removeFails, setFails) ==
    /\ Idle
    /\ ops' = ops + 1
    /\ IF removeFails
       THEN /\ uncaught' = TRUE
            /\ UNCHANGED <<pc, storage, entries>>
       ELSE /\ entries' = EmptyStore
            /\ PersistEffect(NoItem, entries', setFails)
    /\ UNCHANGED <<tz, urlReset, viewYear, viewMonth, modalOpen, modalDate,
                   modalPNL, modalNotes, now, matrixVars>>

prevMonth ==
    /\ Idle
    /\ IF viewMonth = 0
       THEN viewMonth' = 11 /\ viewYear' = viewYear - 1
       ELSE viewMonth' = viewMonth - 1 /\ viewYear' = viewYear
    /\ InView(viewYear', viewMonth')
    /\ uncaught' = FALSE
    /\ UNCHANGED <<pc, tz, urlReset, storage, entries, modalOpen, modalDate,
                   modalPNL, modalNotes, now, ops, matrixVars>>

nextMonth ==
    /\ Idle
    /\ IF viewMonth = 11
       THEN viewMonth' = 0 /\ viewYear' = viewYear + 1
       ELSE viewMonth' = viewMonth + 1 /\ viewYear' = viewYear
    /\ InView(viewYear', viewMonth')
    /\ uncaught' = FALSE
    /\ UNCHANGED <<pc, tz, urlReset, storage, entries, modalOpen, modalDate,
                   modalPNL, modalNotes, now, ops, matrixVars>>

Mount ==
    \E rf \in BOOLEAN, gf \in BOOLEAN, sf \in BOOLEAN :
        \/ MountAfterSafeMode(rf, gf, sf)
        \/ MountBeforeSafeMode(rf, gf, sf)

Save == \E clock \in 0..MaxClock, sf \in BOOLEAN : saveModal(clock, sf)

Remove == \E sf \in BOOLEAN : removeEntry(sf)

Reset == \E rf \in BOOLEAN, sf \in BOOLEAN : resetData(rf, sf)

Next ==
    \/ LoadRejected
    \/ Mount
    \/ \E day \in ClickDays : openForDate(day)
    \/ \E text \in PnlInputs : setModalPNL(text)
    \/ \E text \in NotesInputs : setModalNotes(text)
    \/ closeModal
    \/ Save
    \/ Remove
    \/ Reset

Spec == Init /\ [][Next]_vars

(***************************************************************************)
(* monthEntries and stats of the displayed month.                          *)
(***************************************************************************)
\* `${viewYear}-${String(viewMonth + 1).padStart(2, "0")}-`
monthKeyPrefix == ToStr(viewYear) \o <<"-">> \o padStart(ToStr(viewMonth + 1), 2, "0") \o <<"-">>

\* a < b on strings
RECURSIVE StrLess(_, _)
StrLess(a, b) ==
    IF b = <<>> THEN FALSE
    ELSE IF a = <<>> THEN TRUE
    ELSE IF CharCode(a[1]) # CharCode(b[1]) THEN CharCode(a[1]) < CharCode(b[1])
    ELSE StrLess(Tail(a), Tail(b))

\* .sort(([a], [b]) => (a < b ? -1 : a > b ? 1 : 0)) on a set of keys
RECURSIVE SortKeys(_)
SortKeys(ks) ==
    IF ks = {} THEN <<>>
    ELSE LET lo == CHOOSE k \in ks : \A o \in ks \ {k} : StrLess(k, o)
         IN <<lo>> \o SortKeys(ks \ {lo})

\* Object.entries(entries).filter(([k]) => k.startsWith(monthKeyPrefix)).sort(...)
MonthEntries(store, prefix) ==
    LET ks == SortKeys({k \in DOMAIN store : startsWith(k, prefix)})
    IN [n \in 1..Len(ks) |-> [key |-> ks[n], value |-> store[ks[n]]]]

monthEntries == MonthEntries(entries, monthKeyPrefix)

\* Math.round(a / b) for integers a and b > 0: halves go up
MathRoundDiv(a, b) == (2 * a + b) \div (2 * b)

\* mutant of StatsStep: a pnl of zero counts as a win
StatsStep_ZeroIsWin(acc, v) ==
    LET p == IF IsSome(v.pnl) THEN ValueOf(v.pnl) ELSE 0
        t == [acc EXCEPT !.total = acc.total + p]
    IN IF p >= 0 THEN [t EXCEPT !.wins = acc.wins + 1, !.sumWin = acc.sumWin + p]
       ELSE [t EXCEPT !.losses = acc.losses + 1, !.sumLoss = acc.sumLoss + p]

\* one iteration of for (const [, v] of monthEntries)
StatsStep(acc, v) ==
    LET p == IF IsSome(v.pnl) THEN ValueOf(v.pnl) ELSE 0
        t == [acc EXCEPT !.total = acc.total + p]
    IN IF p > 0 THEN [t EXCEPT !.wins = acc.wins + 1, !.sumWin = acc.sumWin + p]
       ELSE IF p < 0 THEN [t EXCEPT !.losses = acc.losses + 1, !.sumLoss = acc.sumLoss + p]
       ELSE t

RECURSIVE StatsLoop(_, _, _)
StatsLoop(es, n, acc) ==
    IF n > Len(es) THEN acc ELSE StatsLoop(es, n + 1, StatsStep(acc, es[n].value))

Stats(es) ==
    LET r == StatsLoop(es, 1, [total |-> 0, wins |-> 0, losses |-> 0,
                               sumWin |-> 0, sumLoss |-> 0])
    IN [total |-> r.total,
        wins |-> r.wins,
        losses |-> r.losses,
        avgWin |-> IF r.wins # 0 THEN MathRoundDiv(r.sumWin, r.wins) ELSE 0,
        avgLoss |-> IF r.losses # 0 THEN MathRoundDiv(r.sumLoss, r.losses) ELSE 0,
        days |-> Len(es)]

stats == Stats(monthEntries)

(***************************************************************************)
(* SpecStats: the aggregates of the displayed month over stores drawn from *)
(* a bounded set, the month changed by prevMonth and nextMonth.            *)
(***************************************************************************)
StatKeys ==
    {IsoDate(2024, 0, 1), IsoDate(2024, 0, 2), IsoDate(2024, 0, 3),
     IsoDate(2023, 11, 31), IsoDate(2023, 0, 1)}

StatValues ==
    {Entry(Null, SampleNotes, 0)}
    \cup {Entry(Some(p), <<>>, 0) : p \in {0, 100, 8, -40, -7}}

InitStats ==
    /\ tz = 0
    /\ entries \in StoresOver(StatKeys, StatValues)
    /\ viewYear = Today.y
    /\ viewMonth = Today.m
    /\ pc = "ready"
    /\ urlReset = FALSE
    /\ storage = JSONstringify(entries)
    /\ modalOpen = FALSE
    /\ modalDate = Null
    /\ modalPNL = StrVal(<<>>)
    /\ modalNotes = <<>>
    /\ now = 0
    /\ uncaught = FALSE
    /\ ops = 0
    /\ gpc = "idle"
    /\ week = <<>>
    /\ matrix = <<>>
    /\ i = 0
    /\ d = 1

NextStats == prevMonth \/ nextMonth

SpecStats == InitStats /\ [][NextStats]_vars

(***************************************************************************)
(* SpecCells: the store starts empty and is built by clicking cells of the *)
(* displayed month, typing a number and saving, with month navigation in   *)
(* between; a render then calls generateMonthMatrix for the displayed      *)
(* month, and weeklyTotals and stats are read off its weeks.               *)
(***************************************************************************)
NumericPnlInputs == PnlInputs \ {<<>>}

InitCells ==
    /\ tz \in TzHours
    /\ entries = EmptyStore
    /\ viewYear = Today.y
    /\ viewMonth = Today.m
    /\ pc = "ready"
    /\ urlReset = FALSE
    /\ storage = JSONstringify(EmptyStore)
    /\ modalOpen = FALSE
    /\ modalDate = Null
    /\ modalPNL = StrVal(<<>>)
    /\ modalNotes = <<>>
    /\ now = 0
    /\ uncaught = FALSE
    /\ ops = 0
    /\ gpc = "idle"
    /\ week = <<>>
    /\ matrix = <<>>
    /\ i = 0
    /\ d = 1

\* Save in the modal with a number in the pnl field
saveCell ==
    /\ modalPNL # StrVal(<<>>)
    /\ \E clock \in 0..MaxClock : saveModal(clock, FALSE)

\* const monthMatrix = useMemo(() => generateMonthMatrix(viewYear, viewMonth), ...):
\* the render enters generateMonthMatrix
monthMatrix ==
    /\ pc = "ready" /\ ~modalOpen
    /\ pc' = "render"
    /\ week' = <<>>
    /\ matrix' = <<>>
    /\ i' = 0
    /\ d' = 1
    /\ gpc' = IF 0 < getDay(first) THEN "lead" ELSE "days"
    /\ UNCHANGED <<tz, urlReset, storage, entries, viewYear, viewMonth, modalOpen,
                   modalDate, modalPNL, modalNotes, now, uncaught, ops>>

NextCells ==
    \/ \E day \in ClickDays : openForDate(day)
    \/ \E text \in NumericPnlInputs : setModalPNL(text)
    \/ saveCell
    \/ prevMonth
    \/ nextMonth
    \/ monthMatrix
    \/ LeadStep /\ UNCHANGED <<sessionVars, tz, entries, viewYear, viewMonth>>
    \/ DayStep /\ UNCHANGED <<sessionVars, tz, entries, viewYear, viewMonth>>
    \/ PadStep /\ UNCHANGED <<sessionVars, tz, entries, viewYear, viewMonth>>

SpecCells == InitCells /\ [][NextCells]_vars

(***************************************************************************)
(* Properties.                                                             *)
(***************************************************************************)
Sparse(store) ==
    \A k \in DOMAIN store : IsSome(store[k].pnl) \/ trim(store[k].notes) # <<>>

\* C1: every key of the entry store maps to an entry whose pnl is non-null
\* or whose notes are non-empty after trimming; a save with pnl absent and
\* notes empty or whitespace-only removes the key instead of storing a record.
C1_Sparsity == Sparse(entries)

\* C1 witness: the one mutation of the session was a save (it read the clock
\* at 1) of whitespace-only notes without pnl for a date that was stored, and
\* the key is gone while the other persisted entry is kept.
C1_Witness ==
    /\ pc = "ready" /\ ops = 1 /\ now = 1 /\ ~modalOpen
    /\ modalPNL = StrVal(<<>>) /\ modalNotes = <<" ">>
    /\ modalDate = Some(IsoDate(2024, 0, 2))
    /\ entries = Delete(PersistedStore, IsoDate(2024, 0, 2))
    /\ entries # EmptyStore

\* C2: generateMonthMatrix terminates: when a padding step fills the final
\* week to 7 slots the padding loop stops and the matrix is returned.
C2_PaddingStops ==
    [][(gpc = "pad" /\ Len(matrix') > Len(matrix)) => gpc' = "return"]_vars

ConcreteSlots(mx) ==
    {<<w, n>> \in (1..Len(mx)) \X (1..7) : n <= Len(mx[w]) /\ IsSome(mx[w][n])}

\* C3: the matrix built by generateMonthMatrix (all days emitted, the final
\* week closed) is returned with every week of exactly 7 slots and as many
\* concrete-date slots as the month has days.
C3_BuiltMatrix ==
    (gpc \in {"pad", "return"} /\ week = <<>>) =>
        /\ gpc = "return"
        /\ \A w \in 1..Len(matrix) : Len(matrix[w]) = 7
        /\ Cardinality(ConcreteSlots(matrix)) = DaysInMonth(viewYear, viewMonth)

\* C4: when the persist effect of the last mutation has run, loadEntries on
\* the stored item yields the in-memory entry store.
C4_PersistedEqualsMemory ==
    pc = "ready" => loadEntries(storage, FALSE) = entries

\* C4 witness: after two mutations the store holds a notes-only entry and an
\* entry with a negative pnl, and the stored item loads to it.
C4_Witness ==
    /\ pc = "ready" /\ ops = 2
    /\ \E k \in DOMAIN entries : ~IsSome(entries[k].pnl)
    /\ \E k \in DOMAIN entries : IsSome(entries[k].pnl) /\ ValueOf(entries[k].pnl) < 0
    /\ storage.kind = "json"
    /\ loadEntries(storage, FALSE) = entries

\* C5: after Reset Data and the effect it triggers, with a storage that does
\* not fail, the in-memory store is empty and the storage key is removed
\* (getItem returns null).
C5_ResetClearsBoth ==
    [][resetData(FALSE, FALSE) => (entries' = EmptyStore /\ storage' = NoItem)]_vars

\* C6: with reset=1 in the URL, after startup the persisted state is cleared
\* (it loads as the empty store) and the in-memory store is empty, whatever
\* was persisted; without the parameter the store is what loadEntries read.
C6_StartupReset ==
    [][(Mount /\ pc' = "ready") =>
        IF urlReset
        THEN entries' = EmptyStore /\ loadEntries(storage', FALSE) = EmptyStore
        ELSE entries' \in {loadEntries(storage, f) : f \in BOOLEAN}]_vars

Abs(x) == IF x < 0 THEN 0 - x ELSE x

RECURSIVE SetSum(_, _)
SetSum(ks, store) ==
    IF ks = {} THEN 0
    ELSE LET k == CHOOSE x \in ks : TRUE
         IN (IF IsSome(store[k].pnl) THEN ValueOf(store[k].pnl) ELSE 0)
            + SetSum(ks \ {k}, store)

\* r is a / n rounded to a nearest whole unit, 0 when n = 0
IsRoundedMean(r, a, n) == IF n = 0 THEN r = 0 ELSE 2 * Abs(r * n - a) <= n

\* the keys YYYY-MM-DD of the store whose year and month are those displayed
KeysOfMonth(store, y, m) ==
    {k \in DOMAIN store :
        /\ ParseNat(SubSeq(k, 1, 4)) = y
        /\ ParseNat(SubSeq(k, 6, 7)) = m + 1}

\* C7: stats equals the fold over the entries of the displayed month: total
\* (missing pnl as 0), winDays (pnl > 0), lossDays (pnl < 0), avgWin and
\* avgLoss (rounded means, 0 without wins or losses), activeDays (all monthly
\* entries, notes-only ones included); all six are 0 on an empty month.
C7_Stats ==
    LET ks == KeysOfMonth(entries, viewYear, viewMonth)
        winKeys == {k \in ks : IsSome(entries[k].pnl) /\ ValueOf(entries[k].pnl) > 0}
        lossKeys == {k \in ks : IsSome(entries[k].pnl) /\ ValueOf(entries[k].pnl) < 0}
    IN /\ stats.total = SetSum(ks, entries)
       /\ stats.wins = Cardinality(winKeys)
       /\ stats.losses = Cardinality(lossKeys)
       /\ IsRoundedMean(stats.avgWin, SetSum(winKeys, entries), Cardinality(winKeys))
       /\ IsRoundedMean(stats.avgLoss, SetSum(lossKeys, entries), Cardinality(lossKeys))
       /\ stats.days = Cardinality(ks)
       /\ ks = {} => stats = [total |-> 0, wins |-> 0, losses |-> 0,
                              avgWin |-> 0, avgLoss |-> 0, days |-> 0]

\* C7 witness: the displayed month holds 100, -40 and 0 on its first three
\* days and a notes-only entry lies in the month before; the stats are
\* total 60, one win, one loss, averages 100 and -40, three active days.
C7_Witness ==
    /\ viewYear = 2024 /\ viewMonth = 0
    /\ entries = Put(Put(Put(Put(EmptyStore,
                    IsoDate(2024, 0, 1), Entry(Some(100), <<>>, 0)),
                    IsoDate(2024, 0, 2), Entry(Some(-40), <<>>, 0)),
                    IsoDate(2024, 0, 3), Entry(Some(0), <<>>, 0)),
                    IsoDate(2023, 11, 31), Entry(Null, SampleNotes, 0))
    /\ stats = [total |-> 60, wins |-> 1, losses |-> 1,
                avgWin |-> 100, avgLoss |-> -40, days |-> 3]

\* the keys of the concrete-date slots of a week that have numeric pnl
WeekHits(wk) ==
    {k \in {KeyOf(ValueOf(wk[n]), tz) : n \in {x \in 1..Len(wk) : IsSome(wk[x])}} :
        HasNumericPnl(entries, k)}

SameValuesStored ==
    LET key == ValueOf(modalDate)
        value == ModalValue(0)
    IN IF IsEmptyValue(value) THEN ~Has(entries, key)
       ELSE /\ Has(entries, key)
            /\ entries[key].pnl = value.pnl
            /\ entries[key].notes = value.notes

\* C9 as stated: a save with the key and the field values of the save
\* before it leaves the entry store in the same state.
C9_Idempotent ==
    [][(Save /\ SameValuesStored) => entries' = entries]_vars

\* C9 amended: a save with the key and the field values of the save before
\* it leaves the store with the same keys, the same pnl and notes under each
\* key and every other entry unchanged; only the updated timestamp of the
\* saved entry may differ.
C9_IdempotentButUpdated ==
    [][(Save /\ SameValuesStored) =>
        /\ DOMAIN entries' = DOMAIN entries
        /\ \A k \in DOMAIN entries :
              /\ entries'[k].pnl = entries[k].pnl
              /\ entries'[k].notes = entries[k].notes
              /\ k # ValueOf(modalDate) => entries'[k] = entries[k]]_vars

\* C9 witness: a date that was not persisted before the session was saved
\* with pnl -40, reopened (the modal then holds the number) and saved again
\* at a later clock value.
C9_Witness ==
    /\ pc = "ready" /\ ops = 2 /\ now = 1 /\ ~modalOpen /\ ~uncaught
    /\ modalDate = Some(IsoDate(2024, 0, 1))
    /\ modalPNL = NumVal(-40)
    /\ Has(entries, IsoDate(2024, 0, 1))
    /\ entries[IsoDate(2024, 0, 1)] = Entry(Some(-40), modalNotes, 1)

\* C10: no exception of the storage interface leaves an operation: startup
\* and every operation of the mounted component end in the running
\* component with no uncaught exception.
C10_FailuresAbsorbed ==
    [][(Mount \/ pc = "ready") => (pc' = "ready" /\ ~uncaught')]_vars

\* the sum of the non-null values of a sequence of weekly totals
RECURSIVE TotalsSum(_)
TotalsSum(ts) ==
    IF ts = <<>> THEN 0
    ELSE (IF IsSome(ts[1]) THEN ValueOf(ts[1]) ELSE 0) + TotalsSum(Tail(ts))

\* every day of the displayed month is placed and the last week holding a
\* day is closed: the weeks generateMonthMatrix has pushed cover the month
MonthPlaced == pc = "render" /\ gpc \in {"pad", "return"} /\ week = <<>>

\* C11: in every host time zone, for every displayed month and every store
\* built by saving numeric pnl through cells of displayed months, clicking
\* the cell of a day opens the modal on the date key of that calendar day,
\* and the sum of the non-null weeklyTotals of the displayed month equals
\* stats.total of that month.
C11_AggregatesAgree ==
    /\ [][\A day \in ClickDays :
            openForDate(day) =>
                modalDate' = Some(IsoDate(viewYear, viewMonth, day))]_vars
    /\ [](MonthPlaced =>
            TotalsSum(weeklyTotals) = stats.total)

====
